---- MODULE Spec2Model ----
(***************************************************************************)
(* A model of src/src/abstract_hardware_model.h: the kernel work           *)
(* enumerator kernel_info_t and the warp instruction warp_inst_t.          *)
(*                                                                         *)
(* SpecKernel runs one bound kernel_info_t; SpecWarp runs one warp_inst_t. *)
(* Variables whose names start with h_ are history variables: they record  *)
(* what the callers did and what the callbacks saw, and no operation of    *)
(* the program reads them.                                                 *)
(***************************************************************************)
EXTENDS Integers, Naturals, Sequences, FiniteSets, TLC

\* ------------------------------------------------------------ bounds

\* Grid and block dimensions are drawn from 1..MaxDim on every axis.
MaxDim == 2

\* Calls allowed past the end of an enumeration (the code has no limit).
MaxExtra == 2

\* ------------------------------------------------- unsigned int values

\* An unsigned value is held as its base-2^8 digits, least significant first:
\* 4 digits are an unsigned int, whose arithmetic drops the carry out of the
\* top digit (arithmetic modulo 2^32); longer words hold exact values.
Radix == 2 ^ 8

UIntDigits == 32 \div 8

\* Enough digits for the exact product of three unsigned ints plus a sum.
WideDigits == 3 * UIntDigits + 1

\* The word of len digits of the natural number n < 2^31.
Word(n, len) ==
    [i \in 1..len |-> IF i <= UIntDigits THEN (n \div (Radix ^ (i - 1))) % Radix ELSE 0]

\* Digits k.. of a + b, carry c coming in; the last carry is dropped.
RECURSIVE AddFrom(_, _, _, _)
AddFrom(a, b, k, c) ==
    IF k > Len(a) THEN <<>>
    ELSE LET t == a[k] + b[k] + c
         IN  <<t % Radix>> \o AddFrom(a, b, k + 1, t \div Radix)

WordAdd(a, b) == AddFrom(a, b, 1, 0)

\* The sum of a[i] * b[k+1-i] for i in 1..j.
RECURSIVE Column(_, _, _, _)
Column(a, b, k, j) ==
    IF j = 0 THEN 0 ELSE a[j] * b[k + 1 - j] + Column(a, b, k, j - 1)

\* Digits k.. of a * b, carry c coming in; the digits past Len(a) are dropped.
RECURSIVE MulFrom(_, _, _, _)
MulFrom(a, b, k, c) ==
    IF k > Len(a) THEN <<>>
    ELSE LET t == Column(a, b, k, k) + c
         IN  <<t % Radix>> \o MulFrom(a, b, k + 1, t \div Radix)

WordMul(a, b) == MulFrom(a, b, 1, 0)

\* The low len digits of a word, and a word extended with zero digits.
Low(w, len) == [i \in 1..len |-> w[i]]
Extend(w, len) == [i \in 1..len |-> IF i <= Len(w) THEN w[i] ELSE 0]

\* The number a word below 2^31 holds.
RECURSIVE WordValue(_)
WordValue(w) ==
    IF Len(w) = 0 THEN 0 ELSE w[1] + Radix * WordValue(Tail(w))

UInt(n) == Word(n, UIntDigits)

\* ------------------------------------------------------- kernel_info_t

VARIABLES m_grid_dim, m_block_dim, m_next_cta, m_next_tid,
          h_cta_calls, h_tid_calls, h_kop, h_pre_cta, h_pre_tid, h_id,
          h_count, h_tid_index

kvars == <<m_grid_dim, m_block_dim, m_next_cta, m_next_tid,
           h_cta_calls, h_tid_calls, h_kop, h_pre_cta, h_pre_tid, h_id,
           h_count, h_tid_index>>

\* h_cta_calls: the calls of increment_cta_id() so far; h_tid_calls: the calls
\* of increment_thread_id() since the start or the last increment_cta_id();
\* h_kop: the last operation; h_pre_cta, h_pre_tid: m_next_cta and m_next_tid
\* before it; h_id: what get_next_thread_id() returned if it was the last
\* operation, else <<>>; h_count: the same for num_blocks() and
\* threads_per_cta(); h_tid_index: the number of increment_thread_id() steps
\* that lead from (0,0,0) to m_next_tid, as a wide word.

\* An unsigned int value as a word wide enough for exact products and sums.
Wide(n) == Word(n, WideDigits)

\* size_t is 64 bits wide.
SizeDigits == 64 \div 8

\* struct dim3 { unsigned int x, y, z; }
dim3(x, y, z) == [x |-> x, y |-> y, z |-> z]

Dims == { dim3(x, y, z) : x \in 1..MaxDim, y \in 1..MaxDim, z \in 1..MaxDim }

\* The coordinate enumerator: one odometer step of i within bound.
increment_x_then_y_then_z(i, bound) ==
    IF i.x + 1 >= bound.x
    THEN IF i.y + 1 >= bound.y
         THEN dim3(0, 0, i.z + 1)
         ELSE dim3(0, i.y + 1, i.z)
    ELSE dim3(i.x + 1, i.y, i.z)

get_next_cta_id == m_next_cta

\* Mutant: the three axis tests joined by && instead of ||.
no_more_ctas_to_run_all_axes ==
    /\ m_next_cta.x >= m_grid_dim.x
    /\ m_next_cta.y >= m_grid_dim.y
    /\ m_next_cta.z >= m_grid_dim.z

no_more_ctas_to_run ==
    \/ m_next_cta.x >= m_grid_dim.x
    \/ m_next_cta.y >= m_grid_dim.y
    \/ m_next_cta.z >= m_grid_dim.z

get_next_thread_id_3d == m_next_tid

\* Mutant: the y stride taken from m_block_dim.y.
flat_thread_id_y_stride(tid, bdim) ==
    WordAdd(WordAdd(UInt(tid.x), WordMul(UInt(bdim.y), UInt(tid.y))),
            WordMul(WordMul(UInt(bdim.x), UInt(bdim.y)), UInt(tid.z)))

\* The expression of get_next_thread_id() on next-thread tid and block
\* dimensions bdim, every operation in unsigned int:
\*   tid.x + bdim.x*tid.y + bdim.x*bdim.y*tid.z
flat_thread_id(tid, bdim) ==
    WordAdd(WordAdd(UInt(tid.x), WordMul(UInt(bdim.x), UInt(tid.y))),
            WordMul(WordMul(UInt(bdim.x), UInt(bdim.y)), UInt(tid.z)))

\* unsigned get_next_thread_id() const, as a number (below 2^31 in SpecKernel)
get_next_thread_id == WordValue(flat_thread_id(m_next_tid, m_block_dim))

more_threads_in_cta ==
    /\ m_next_tid.z < m_block_dim.z
    /\ m_next_tid.y < m_block_dim.y
    /\ m_next_tid.z < m_block_dim.x

\* kernel_info_t( dim3 gridDim, dim3 blockDim, function_info *entry )
kernel_info_t(gridDim, blockDim) ==
    /\ m_grid_dim = gridDim
    /\ m_block_dim = blockDim
    /\ m_next_cta = dim3(0, 0, 0)
    /\ m_next_tid = m_next_cta
    /\ h_cta_calls = 0
    /\ h_tid_calls = 0
    /\ h_kop = "bind"
    /\ h_pre_cta = dim3(0, 0, 0)
    /\ h_pre_tid = dim3(0, 0, 0)
    /\ h_id = <<>>
    /\ h_count = <<>>
    /\ h_tid_index = Wide(0)

\* The mathematical sizes of the grid and of a block, for the call limits.
GridSize == m_grid_dim.x * m_grid_dim.y * m_grid_dim.z
BlockSize == m_block_dim.x * m_block_dim.y * m_block_dim.z

\* Mutant: increment_cta_id() without the reset of m_next_tid.
increment_cta_id_keeps_tid ==
    /\ h_cta_calls < GridSize + MaxExtra
    /\ m_next_cta' = increment_x_then_y_then_z(m_next_cta, m_grid_dim)
    /\ m_next_tid' = m_next_tid
    /\ h_cta_calls' = h_cta_calls + 1
    /\ h_tid_calls' = 0
    /\ h_kop' = "increment_cta_id"
    /\ h_pre_cta' = m_next_cta
    /\ h_pre_tid' = m_next_tid
    /\ h_tid_index' = Wide(0)
    /\ UNCHANGED <<m_grid_dim, m_block_dim, h_id, h_count>>

\* Mutant: next-block wrapped back to the first block past the end of the grid.
increment_cta_id_wraps ==
    /\ h_cta_calls < GridSize + MaxExtra
    /\ m_next_cta' =
          LET n == increment_x_then_y_then_z(m_next_cta, m_grid_dim)
          IN  IF n.z > m_grid_dim.z THEN dim3(0, 0, 0) ELSE n
    /\ m_next_tid' = dim3(0, 0, 0)
    /\ h_cta_calls' = h_cta_calls + 1
    /\ h_tid_calls' = 0
    /\ h_kop' = "increment_cta_id"
    /\ h_pre_cta' = m_next_cta
    /\ h_pre_tid' = m_next_tid
    /\ h_tid_index' = Wide(0)
    /\ UNCHANGED <<m_grid_dim, m_block_dim, h_id, h_count>>

increment_cta_id ==
    /\ h_cta_calls < GridSize + MaxExtra
    /\ m_next_cta' = increment_x_then_y_then_z(m_next_cta, m_grid_dim)
    /\ m_next_tid' = dim3(0, 0, 0)
    /\ h_cta_calls' = h_cta_calls + 1
    /\ h_tid_calls' = 0
    /\ h_kop' = "increment_cta_id"
    /\ h_pre_cta' = m_next_cta
    /\ h_pre_tid' = m_next_tid
    /\ h_tid_index' = Wide(0)
    /\ UNCHANGED <<m_grid_dim, m_block_dim, h_id, h_count>>

\* Mutant: next-thread advanced within the grid dimensions.
thread_id_step_in_grid == increment_x_then_y_then_z(m_next_tid, m_grid_dim)

\* m_next_tid after increment_thread_id().
thread_id_step == increment_x_then_y_then_z(m_next_tid, m_block_dim)

increment_thread_id ==
    /\ h_tid_calls < BlockSize + MaxExtra
    /\ m_next_tid' = thread_id_step
    /\ h_tid_calls' = h_tid_calls + 1
    /\ h_kop' = "increment_thread_id"
    /\ h_pre_cta' = m_next_cta
    /\ h_pre_tid' = m_next_tid
    /\ h_tid_index' = WordAdd(h_tid_index, Wide(1))
    /\ UNCHANGED <<m_grid_dim, m_block_dim, m_next_cta, h_cta_calls, h_id,
                   h_count>>

\* A caller reads get_next_thread_id().
read_next_thread_id ==
    /\ h_id' = flat_thread_id(m_next_tid, m_block_dim)
    /\ h_kop' = "get_next_thread_id"
    /\ h_pre_cta' = m_next_cta
    /\ h_pre_tid' = m_next_tid
    /\ h_count' = <<>>
    /\ UNCHANGED <<m_grid_dim, m_block_dim, m_next_cta, m_next_tid,
                   h_cta_calls, h_tid_calls, h_tid_index>>

\* d.x * d.y * d.z in unsigned int, returned as size_t.
count(d) ==
    Extend(WordMul(WordMul(UInt(d.x), UInt(d.y)), UInt(d.z)), SizeDigits)

\* size_t num_blocks() const
num_blocks == count(m_grid_dim)

\* size_t threads_per_cta() const
threads_per_cta == count(m_block_dim)

\* A caller reads num_blocks().
read_num_blocks ==
    /\ h_count' = num_blocks
    /\ h_id' = <<>>
    /\ h_kop' = "num_blocks"
    /\ h_pre_cta' = m_next_cta
    /\ h_pre_tid' = m_next_tid
    /\ UNCHANGED <<m_grid_dim, m_block_dim, m_next_cta, m_next_tid,
                   h_cta_calls, h_tid_calls, h_tid_index>>

\* A caller reads threads_per_cta().
read_threads_per_cta ==
    /\ h_count' = threads_per_cta
    /\ h_id' = <<>>
    /\ h_kop' = "threads_per_cta"
    /\ h_pre_cta' = m_next_cta
    /\ h_pre_tid' = m_next_tid
    /\ UNCHANGED <<m_grid_dim, m_block_dim, m_next_cta, m_next_tid,
                   h_cta_calls, h_tid_calls, h_tid_index>>

\* Block dimensions and coordinates up to the largest an unsigned int product
\* of two of them still holds, and one step beyond.
FarDimValues == {1, 2, 65536}
FarCoordValues == {0, 1, 65535}

\* Grid dimensions whose product holds in an unsigned int, and beyond.
FarGrids == { dim3(x, y, z) : x \in {1, 65536}, y \in {1, 65536}, z \in {1, 2} }

\* The increment_thread_id() calls taken from a kernel_info_t met some way
\* into a block.
MaxFarSteps == 1

\* The number of steps of the enumerator from (0,0,0) to the coordinate i of
\* the box bound (i.x < bound.x, i.y < bound.y): x + bx*y + bx*by*z.
StepsToReach(i, bound) ==
    WordAdd(WordAdd(Wide(i.x), WordMul(Wide(bound.x), Wide(i.y))),
            WordMul(WordMul(Wide(bound.x), Wide(bound.y)), Wide(i.z)))

\* increment_thread_id() on a kernel_info_t met some way into a block.
increment_thread_id_far ==
    /\ h_tid_calls < MaxFarSteps
    /\ m_next_tid' = thread_id_step
    /\ h_tid_calls' = h_tid_calls + 1
    /\ h_kop' = "increment_thread_id"
    /\ h_pre_cta' = m_next_cta
    /\ h_pre_tid' = m_next_tid
    /\ h_tid_index' = WordAdd(h_tid_index, Wide(1))
    /\ h_id' = <<>>
    /\ h_count' = <<>>
    /\ UNCHANGED <<m_grid_dim, m_block_dim, m_next_cta, h_cta_calls>>

\* A kernel_info_t met some way into the enumeration of a block: m_next_tid is
\* the coordinate of a thread of the block (x < bx, y < by, z < bz), which the
\* enumerator reaches after x + bx*y + bx*by*z steps.
kernel_info_far(gridDim, blockDim, tid) ==
    /\ m_grid_dim = gridDim
    /\ m_block_dim = blockDim
    /\ m_next_cta = dim3(0, 0, 0)
    /\ m_next_tid = tid
    /\ h_cta_calls = 0
    /\ h_tid_calls = 0
    /\ h_kop = "far"
    /\ h_pre_cta = dim3(0, 0, 0)
    /\ h_pre_tid = tid
    /\ h_id = <<>>
    /\ h_count = <<>>
    /\ h_tid_index = StepsToReach(tid, blockDim)

InitFarKernel ==
    \E g \in FarGrids :
    \E bx \in FarDimValues, by \in FarDimValues, bz \in FarDimValues :
    \E x \in FarCoordValues, y \in FarCoordValues, z \in FarCoordValues :
        /\ x < bx /\ y < by /\ z < bz
        /\ kernel_info_far(g, dim3(bx, by, bz), dim3(x, y, z))

InitKernel == \E g \in Dims, b \in Dims : kernel_info_t(g, b)

\* The kernel object of a run that exercises only the warp instruction.
KernelIdle == kernel_info_t(dim3(1, 1, 1), dim3(1, 1, 1))

\* ---------------------------------------------------------- warp_inst_t

\* Warp widths are drawn from 1..MaxWarp (the code allows up to MAX_WARP_SIZE).
MaxWarp == 2

MAX_WARP_SIZE == 32

VARIABLES m_warp_size, m_empty, m_isatomic, m_per_scalar_thread_valid,
          warp_active_mask, m_warp_id, issue_cycle, m_per_scalar_thread,
          h_wop, h_lane, h_mask, h_addr, h_pre_empty, h_calls, h_registered,
          h_aborted, h_ret, h_issue_id

wvars == <<m_warp_size, m_empty, m_isatomic, m_per_scalar_thread_valid,
           warp_active_mask, m_warp_id, issue_cycle, m_per_scalar_thread,
           h_wop, h_lane, h_mask, h_addr, h_pre_empty, h_calls, h_registered,
           h_aborted, h_ret, h_issue_id>>

\* h_ret: what the last operation returned, -1 if nothing; h_issue_id: the id
\* given to the most recent issue(), -1 before the first.

NULL == "NULL"

\* The values the callers pass.
WarpIds == {0, 1}
Cycles == {1}
Addrs == {0, 1}
Funcs == {"f1"}
Insts == {"i1"}
Threads == {"t1"}

\* dram_callback_t() { function=NULL; instruction=NULL; thread=NULL; }
dram_callback_t == [function |-> NULL, instruction |-> NULL, thread |-> NULL]

\* per_thread_info() { cache_miss=false; memreqaddr=0; }
per_thread_info ==
    [callback |-> dram_callback_t, memreqaddr |-> 0, cache_miss |-> FALSE]

\* Lane n of the warp; m_per_scalar_thread[n] is element n+1 of the sequence.
Lanes == 0..(m_warp_size - 1)

\* mask & (1<<i)
mask_bit(mask, i) == (mask \div (2 ^ i)) % 2 = 1

\* std::vector::resize(n) on the empty vector
resize(n) == [k \in 1..n |-> per_thread_info]

\* warp_inst_t( unsigned warp_size ); m_warp_id and issue_cycle are left
\* uninitialized, and hold whatever id and cycle are given here.
warp_inst_t(warp_size, id, cycle) ==
    /\ warp_size <= MAX_WARP_SIZE
    /\ m_warp_size = warp_size
    /\ m_empty = TRUE
    /\ m_isatomic = FALSE
    /\ m_per_scalar_thread_valid = FALSE
    /\ warp_active_mask = {}
    /\ m_warp_id = id
    /\ issue_cycle = cycle
    /\ m_per_scalar_thread = <<>>
    /\ h_wop = "construct"
    /\ h_lane = -1
    /\ h_mask = -1
    /\ h_addr = -1
    /\ h_pre_empty = TRUE
    /\ h_calls = <<>>
    /\ h_registered = {}
    /\ h_aborted = FALSE
    /\ h_ret = -1
    /\ h_issue_id = -1

\* accessors
active(thread) == thread \in warp_active_mask
empty == m_empty
warp_id == m_warp_id
isatomic == m_isatomic
get_addr(n) == m_per_scalar_thread[n + 1].memreqaddr

\* Mutant: has_callback() without the test of the active mask.
has_callback_ignores_mask(n) ==
    /\ m_per_scalar_thread_valid
    /\ m_per_scalar_thread[n + 1].callback.function # NULL

has_callback(n) ==
    /\ n \in warp_active_mask
    /\ m_per_scalar_thread_valid
    /\ m_per_scalar_thread[n + 1].callback.function # NULL

\* The bits issue() sets: for (i = m_warp_size-1; i >= 0; i--) if (mask & (1<<i)) set(i)
RECURSIVE issue_bits(_, _, _)
issue_bits(bits, mask, i) ==
    IF i < 0 THEN bits
    ELSE issue_bits(IF mask_bit(mask, i) THEN bits \cup {i} ELSE bits, mask, i - 1)

\* Mutant: issue() without m_empty = false.
issue_leaves_empty(mask, id, cycle) ==
    /\ ~h_aborted
    /\ warp_active_mask' = issue_bits(warp_active_mask, mask, m_warp_size - 1)
    /\ m_warp_id' = id
    /\ issue_cycle' = cycle
    /\ m_empty' = m_empty
    /\ h_wop' = "issue"
    /\ h_lane' = -1
    /\ h_mask' = mask
    /\ h_addr' = -1
    /\ h_pre_empty' = m_empty
    /\ h_calls' = <<>>
    /\ h_ret' = -1
    /\ h_issue_id' = id
    /\ UNCHANGED <<m_warp_size, m_isatomic, m_per_scalar_thread_valid,
                   m_per_scalar_thread, h_registered, h_aborted>>

issue(mask, id, cycle) ==
    /\ ~h_aborted
    /\ warp_active_mask' = issue_bits(warp_active_mask, mask, m_warp_size - 1)
    /\ m_warp_id' = id
    /\ issue_cycle' = cycle
    /\ m_empty' = FALSE
    /\ h_wop' = "issue"
    /\ h_lane' = -1
    /\ h_mask' = mask
    /\ h_addr' = -1
    /\ h_pre_empty' = m_empty
    /\ h_calls' = <<>>
    /\ h_ret' = -1
    /\ h_issue_id' = id
    /\ UNCHANGED <<m_warp_size, m_isatomic, m_per_scalar_thread_valid,
                   m_per_scalar_thread, h_registered, h_aborted>>

clear ==
    /\ ~h_aborted
    /\ m_empty' = TRUE
    /\ h_wop' = "clear"
    /\ h_lane' = -1
    /\ h_mask' = -1
    /\ h_addr' = -1
    /\ h_pre_empty' = m_empty
    /\ h_calls' = <<>>
    /\ h_ret' = -1
    /\ UNCHANGED <<m_warp_size, m_isatomic, m_per_scalar_thread_valid,
                   warp_active_mask, m_warp_id, issue_cycle,
                   m_per_scalar_thread, h_registered, h_aborted, h_issue_id>>

\* Mutant: the array resized, and so reset, on every call.
allocated_always_resized == resize(m_warp_size)

\* The per-lane array after the lazy allocation both setters start with.
allocated == IF m_per_scalar_thread_valid THEN m_per_scalar_thread
             ELSE resize(m_warp_size)

set_addr(n, addr) ==
    /\ ~h_aborted
    /\ m_per_scalar_thread_valid' = TRUE
    /\ m_per_scalar_thread' = [allocated EXCEPT ![n + 1].memreqaddr = addr]
    /\ h_wop' = "set_addr"
    /\ h_lane' = n
    /\ h_mask' = -1
    /\ h_addr' = addr
    /\ h_pre_empty' = m_empty
    /\ h_calls' = <<>>
    /\ h_ret' = -1
    /\ UNCHANGED <<m_warp_size, m_empty, m_isatomic, warp_active_mask,
                   m_warp_id, issue_cycle, h_registered, h_aborted,
                   h_issue_id>>

\* m_isatomic after add_callback: set only where the array is allocated.
add_callback_isatomic == IF m_per_scalar_thread_valid THEN m_isatomic ELSE TRUE

add_callback(lane_id, function, inst, thread) ==
    /\ ~h_aborted
    /\ m_per_scalar_thread_valid' = TRUE
    /\ m_isatomic' = add_callback_isatomic
    /\ m_per_scalar_thread' =
          [allocated EXCEPT ![lane_id + 1].callback =
              [function |-> function, instruction |-> inst, thread |-> thread]]
    /\ h_wop' = "add_callback"
    /\ h_lane' = lane_id
    /\ h_mask' = -1
    /\ h_addr' = -1
    /\ h_pre_empty' = m_empty
    /\ h_calls' = <<>>
    /\ h_registered' = h_registered \cup {lane_id}
    /\ h_ret' = -1
    /\ UNCHANGED <<m_warp_size, m_empty, warp_active_mask, m_warp_id,
                   issue_cycle, h_aborted, h_issue_id>>

\* Mutant: the test of cb.function in place of cb.thread.
do_atomic_calls_on_function(cb) == cb.function # NULL

\* Whether do_atomic() calls the callback cb: if( cb.thread )
do_atomic_calls(cb) == cb.thread # NULL

\* The calls do_atomic() makes from element k on, in the vector's order; each
\* is cb.function(cb.instruction, cb.thread), logged with the lane it is for.
RECURSIVE do_atomic_loop(_)
do_atomic_loop(k) ==
    IF k > Len(m_per_scalar_thread) THEN <<>>
    ELSE LET cb == m_per_scalar_thread[k].callback
             call == [lane |-> k - 1, function |-> cb.function,
                      instruction |-> cb.instruction, thread |-> cb.thread]
         IN  (IF do_atomic_calls(cb) THEN <<call>> ELSE <<>>) \o do_atomic_loop(k + 1)

\* assert( m_isatomic && !m_empty )
do_atomic_assert == m_isatomic /\ ~m_empty

do_atomic ==
    /\ ~h_aborted
    /\ h_aborted' = ~do_atomic_assert
    /\ h_calls' = IF do_atomic_assert THEN do_atomic_loop(1) ELSE <<>>
    /\ h_wop' = "do_atomic"
    /\ h_lane' = -1
    /\ h_mask' = -1
    /\ h_addr' = -1
    /\ h_pre_empty' = m_empty
    /\ h_ret' = -1
    /\ UNCHANGED <<m_warp_size, m_empty, m_isatomic, m_per_scalar_thread_valid,
                   warp_active_mask, m_warp_id, issue_cycle,
                   m_per_scalar_thread, h_registered, h_issue_id>>

\* Mutant: the assertion of warp_id() left out.
warp_id_assert_absent == TRUE

\* assert( !m_empty ) of warp_id()
warp_id_assert == ~m_empty

\* A caller reads warp_id().
read_warp_id ==
    /\ ~h_aborted
    /\ h_aborted' = ~warp_id_assert
    /\ h_ret' = IF warp_id_assert THEN warp_id ELSE -1
    /\ h_wop' = "warp_id"
    /\ h_lane' = -1
    /\ h_mask' = -1
    /\ h_addr' = -1
    /\ h_pre_empty' = m_empty
    /\ h_calls' = <<>>
    /\ UNCHANGED <<m_warp_size, m_empty, m_isatomic, m_per_scalar_thread_valid,
                   warp_active_mask, m_warp_id, issue_cycle,
                   m_per_scalar_thread, h_registered, h_issue_id>>

\* assert( m_per_scalar_thread_valid ) of get_addr()
get_addr_assert == m_per_scalar_thread_valid

\* A caller reads get_addr(n).
read_get_addr(n) ==
    /\ ~h_aborted
    /\ h_aborted' = ~get_addr_assert
    /\ h_ret' = IF get_addr_assert THEN get_addr(n) ELSE -1
    /\ h_wop' = "get_addr"
    /\ h_lane' = n
    /\ h_mask' = -1
    /\ h_addr' = -1
    /\ h_pre_empty' = m_empty
    /\ h_calls' = <<>>
    /\ UNCHANGED <<m_warp_size, m_empty, m_isatomic, m_per_scalar_thread_valid,
                   warp_active_mask, m_warp_id, issue_cycle,
                   m_per_scalar_thread, h_registered, h_issue_id>>

\* ------------------------------------------- occupancies of a reused slot

\* An occupancy of the slot runs from an issue() to the next clear().
\* h_occ_registered: the lanes whose latest add_callback() was made in the
\* current occupancy; h_earlier_registered: the lanes whose latest
\* add_callback() was made in an occupancy that clear() has ended;
\* h_idle_registered: add_callback() was called on the empty slot since the
\* last clear(); h_atomics: the do_atomic() calls that passed their assertion
\* in the current occupancy, and 2 for good once an occupancy had two.
VARIABLES h_occ_registered, h_earlier_registered, h_idle_registered, h_atomics

ovars == <<h_occ_registered, h_earlier_registered, h_idle_registered, h_atomics>>

SlotNew ==
    /\ h_occ_registered = {}
    /\ h_earlier_registered = {}
    /\ h_idle_registered = FALSE
    /\ h_atomics = 0

\* What issue() does to the occupancies: a new one starts.
occupancy_issue ==
    /\ h_atomics' = IF h_atomics = 2 THEN 2 ELSE 0
    /\ UNCHANGED <<h_occ_registered, h_earlier_registered, h_idle_registered>>

\* What clear() does to the occupancies: the current one, if any, ends.
occupancy_clear ==
    /\ h_earlier_registered' = h_earlier_registered \cup h_occ_registered
    /\ h_occ_registered' = {}
    /\ h_idle_registered' = FALSE
    /\ UNCHANGED h_atomics

\* add_callback(lane_id, ...) registers in the current occupancy, if any.
occupancy_add_callback(lane_id) ==
    /\ h_occ_registered' = IF m_empty THEN h_occ_registered
                           ELSE h_occ_registered \cup {lane_id}
    /\ h_earlier_registered' = h_earlier_registered \ {lane_id}
    /\ h_idle_registered' = (h_idle_registered \/ m_empty)
    /\ UNCHANGED h_atomics

\* do_atomic() counts in the current occupancy where it passes its assertion.
occupancy_do_atomic ==
    /\ h_atomics' = IF do_atomic_assert /\ h_atomics < 2 THEN h_atomics + 1
                    ELSE h_atomics
    /\ UNCHANGED <<h_occ_registered, h_earlier_registered, h_idle_registered>>

InitWarp ==
    \E w \in 1..MaxWarp, id \in WarpIds, c \in Cycles \cup {0} :
        warp_inst_t(w, id, c)

\* The warp instruction of a run that exercises only the kernel enumerator.
WarpIdle == warp_inst_t(1, 0, 0) /\ SlotNew

\* ------------------------------------------------------- memory_space_t

\* The banks given to set_bank are drawn from 0..MaxBank.
MaxBank == 2

\* enum _memory_space_t: the first and the last of its thirteen values.
undefined_space == 0
instruction_space == 12

Spaces == undefined_space..instruction_space

\* Two memory_space_t values a and b; h_mop: the last operation on them;
\* h_cmp: what a == b, a != b, a < b and b < a returned when compared last.
VARIABLES ms_a, ms_b, h_mop, h_cmp

mvars == <<ms_a, ms_b, h_mop, h_cmp>>

\* memory_space_t( const enum _memory_space_t &from ); memory_space_t() is
\* memory_space_t(undefined_space).
memory_space_t(from) == [m_type |-> from, m_bank |-> 0]

get_type(m) == m.m_type
get_bank(m) == m.m_bank

\* void set_bank( unsigned b )
set_bank(m, b) == [m EXCEPT !.m_bank = b]

\* bool operator==( const memory_space_t &x ) const
operator_eq(m, x) == (m.m_bank = x.m_bank) /\ (m.m_type = x.m_type)

\* bool operator!=( const memory_space_t &x ) const
operator_ne(m, x) == ~operator_eq(m, x)

\* Mutant: operator< with the bank compared before the type.
operator_lt_bank_first(m, x) ==
    IF m.m_bank < x.m_bank THEN TRUE
    ELSE IF m.m_bank > x.m_bank THEN FALSE
    ELSE IF m.m_type < x.m_type THEN TRUE
    ELSE FALSE

\* bool operator<( const memory_space_t &x ) const
operator_lt(m, x) ==
    IF m.m_type < x.m_type THEN TRUE
    ELSE IF m.m_type > x.m_type THEN FALSE
    ELSE IF m.m_bank < x.m_bank THEN TRUE
    ELSE FALSE

NotCompared == [eq |-> FALSE, ne |-> FALSE, lt |-> FALSE, gt |-> FALSE]

memory_spaces(from_a, from_b) ==
    /\ ms_a = memory_space_t(from_a)
    /\ ms_b = memory_space_t(from_b)
    /\ h_mop = "construct"
    /\ h_cmp = NotCompared

InitMem == \E from_a \in Spaces, from_b \in Spaces : memory_spaces(from_a, from_b)

\* The memory spaces of a run that exercises only the other classes.
MemIdle == memory_spaces(undefined_space, undefined_space)

\* a.set_bank(b)
set_bank_a(b) ==
    /\ ms_a' = set_bank(ms_a, b)
    /\ h_mop' = "set_bank"
    /\ h_cmp' = NotCompared
    /\ UNCHANGED ms_b

\* b.set_bank(b)
set_bank_b(b) ==
    /\ ms_b' = set_bank(ms_b, b)
    /\ h_mop' = "set_bank"
    /\ h_cmp' = NotCompared
    /\ UNCHANGED ms_a

\* A caller evaluates a == b, a != b, a < b and b < a.
compare ==
    /\ h_cmp' = [eq |-> operator_eq(ms_a, ms_b), ne |-> operator_ne(ms_a, ms_b),
                 lt |-> operator_lt(ms_a, ms_b), gt |-> operator_lt(ms_b, ms_a)]
    /\ h_mop' = "compare"
    /\ UNCHANGED <<ms_a, ms_b>>

Issue ==
    /\ \E mask \in 0..(2 ^ m_warp_size - 1), id \in WarpIds, c \in Cycles :
          issue(mask, id, c)
    /\ UNCHANGED <<kvars, ovars, mvars>>

SetAddr ==
    /\ \E n \in Lanes, a \in Addrs : set_addr(n, a)
    /\ UNCHANGED <<kvars, ovars, mvars>>

AddCallback ==
    /\ \E n \in Lanes, f \in Funcs, i \in Insts, t \in Threads \cup {NULL} :
          add_callback(n, f, i, t)
    /\ UNCHANGED <<kvars, ovars, mvars>>

IncrementCtaId == increment_cta_id /\ UNCHANGED <<wvars, ovars, mvars>>

IncrementThreadId == increment_thread_id /\ UNCHANGED <<wvars, ovars, mvars>>

Clear == clear /\ UNCHANGED <<kvars, ovars, mvars>>

DoAtomic == do_atomic /\ UNCHANGED <<kvars, ovars, mvars>>

WarpId == read_warp_id /\ UNCHANGED <<kvars, ovars, mvars>>

GetAddr ==
    /\ \E n \in Lanes : read_get_addr(n)
    /\ UNCHANGED <<kvars, ovars, mvars>>

vars == <<kvars, wvars, ovars, mvars>>

InitK == InitKernel /\ WarpIdle /\ MemIdle

NextK == IncrementCtaId \/ IncrementThreadId

SpecKernel == InitK /\ [][NextK]_vars

InitW == KernelIdle /\ InitWarp /\ SlotNew /\ MemIdle

NextW ==
    Issue \/ Clear \/ SetAddr \/ AddCallback \/ DoAtomic \/ WarpId \/ GetAddr

SpecWarp == InitW /\ [][NextW]_vars

SlotIssue ==
    /\ \E mask \in 0..(2 ^ m_warp_size - 1), id \in WarpIds, c \in Cycles :
          issue(mask, id, c)
    /\ occupancy_issue
    /\ UNCHANGED <<kvars, mvars>>

SlotClear == clear /\ occupancy_clear /\ UNCHANGED <<kvars, mvars>>

SlotSetAddr ==
    /\ \E n \in Lanes, a \in Addrs : set_addr(n, a)
    /\ UNCHANGED <<kvars, ovars, mvars>>

SlotAddCallback ==
    /\ \E n \in Lanes, f \in Funcs, i \in Insts, t \in Threads \cup {NULL} :
          add_callback(n, f, i, t) /\ occupancy_add_callback(n)
    /\ UNCHANGED <<kvars, mvars>>

SlotDoAtomic == do_atomic /\ occupancy_do_atomic /\ UNCHANGED <<kvars, mvars>>

NextSlot ==
    SlotIssue \/ SlotClear \/ SlotSetAddr \/ SlotAddCallback \/ SlotDoAtomic

SpecSlot == InitW /\ [][NextSlot]_vars

SetBankA ==
    /\ \E b \in 0..MaxBank : set_bank_a(b)
    /\ UNCHANGED <<kvars, wvars, ovars>>

SetBankB ==
    /\ \E b \in 0..MaxBank : set_bank_b(b)
    /\ UNCHANGED <<kvars, wvars, ovars>>

Compare == compare /\ UNCHANGED <<kvars, wvars, ovars>>

InitM == KernelIdle /\ WarpIdle /\ InitMem

NextM == SetBankA \/ SetBankB \/ Compare

SpecMem == InitM /\ [][NextM]_vars

GetNextThreadId == read_next_thread_id /\ UNCHANGED <<wvars, ovars, mvars>>

InitFar == InitFarKernel /\ WarpIdle /\ MemIdle

NumBlocks == read_num_blocks /\ UNCHANGED <<wvars, ovars, mvars>>

ThreadsPerCta == read_threads_per_cta /\ UNCHANGED <<wvars, ovars, mvars>>

IncrementThreadIdFar == increment_thread_id_far /\ UNCHANGED <<wvars, ovars, mvars>>

NextFar ==
    GetNextThreadId \/ NumBlocks \/ ThreadsPerCta \/ IncrementThreadIdFar

SpecFar == InitFar /\ [][NextFar]_vars

\* ------------------------------------------------ claims: kernel_info_t

\* The k-th coordinate of the odometer order within bound d (x fastest).
OdometerCoord(k, d) == dim3(k % d.x, (k \div d.x) % d.y, k \div (d.x * d.y))

\* C1: on a freshly bound kernel_info_t with N = gx*gy*gz, the value of
\* get_next_cta_id() after k < N calls of increment_cta_id() is the k-th
\* coordinate of the odometer order (so the first N values are the N
\* coordinates of the grid, each once, x fastest), no_more_ctas_to_run() is
\* false there, and it is true after the N-th and after the (N+1)-th call.
C1_OdometerOrder ==
    /\ h_cta_calls < GridSize =>
          /\ get_next_cta_id = OdometerCoord(h_cta_calls, m_grid_dim)
          /\ ~no_more_ctas_to_run
    /\ h_cta_calls \in {GridSize, GridSize + 1} => no_more_ctas_to_run

\* A grid of at least 2 x 2 blocks enumerated to one call past its end.
C1_Witness ==
    /\ GridSize >= 4
    /\ m_grid_dim.x > 1 /\ m_grid_dim.y > 1
    /\ h_cta_calls = GridSize + 1
    /\ no_more_ctas_to_run

\* C8: after k calls of increment_thread_id() since binding or since the last
\* increment_cta_id(), more_threads_in_cta() is true iff k < bx*by*bz.
C8_MoreThreadsIffRemaining == more_threads_in_cta <=> (h_tid_calls < BlockSize)

\* C10: m_next_tid is (0,0,0) right after binding and right after every
\* increment_cta_id(), and increment_thread_id() leaves m_next_cta as it was.
C10_TidResetOnCtaAdvance ==
    /\ h_kop \in {"bind", "increment_cta_id"} => m_next_tid = dim3(0, 0, 0)
    /\ h_kop = "increment_thread_id" => m_next_cta = h_pre_cta

\* An increment_cta_id() that found m_next_tid past the end of the block.
C10_Witness ==
    /\ h_kop = "increment_cta_id"
    /\ h_pre_tid # dim3(0, 0, 0)
    /\ h_pre_tid.z >= m_block_dim.z
    /\ m_next_tid = dim3(0, 0, 0)

\* C11: no_more_ctas_to_run() is true iff some axis of m_next_cta has reached
\* the same axis of m_grid_dim, and once it is true it stays true through
\* every further increment_cta_id() and increment_thread_id().
C11_NoMoreCtasTerminal ==
    [][ /\ no_more_ctas_to_run' <=>
              (\E a \in {"x", "y", "z"} : m_next_cta'[a] >= m_grid_dim'[a])
        /\ no_more_ctas_to_run => no_more_ctas_to_run' ]_vars

\* The end of the grid seen again after further calls of both operations.
C11_Witness ==
    /\ no_more_ctas_to_run
    /\ h_cta_calls = GridSize + MaxExtra
    /\ h_tid_calls > 0

\* C19: stepping from (0,0,0) within a bound, x and y stay below their bounds,
\* z never decreases, and z has reached its bound iff at least
\* bound.x*bound.y*bound.z steps were taken; for next-block within the grid
\* dimensions and for next-thread within the block dimensions.
C19_CompletionByZ ==
    /\ m_next_cta.x < m_grid_dim.x /\ m_next_cta.y < m_grid_dim.y
    /\ m_next_tid.x < m_block_dim.x /\ m_next_tid.y < m_block_dim.y
    /\ m_next_cta.z >= m_grid_dim.z <=> h_cta_calls >= GridSize
    /\ m_next_tid.z >= m_block_dim.z <=> h_tid_calls >= BlockSize
    /\ h_kop = "increment_cta_id" => m_next_cta.z >= h_pre_cta.z
    /\ h_kop = "increment_thread_id" => m_next_tid.z >= h_pre_tid.z

\* A block of at least 2 x 2 threads per layer stepped past its end.
C19_Witness ==
    /\ m_block_dim.x > 1 /\ m_block_dim.y > 1
    /\ h_kop = "increment_thread_id"
    /\ h_tid_calls > BlockSize
    /\ m_next_tid.z >= m_block_dim.z
    /\ m_next_tid.x > 0

\* The exact product of the three axes of d.
ExactCount(d) == WordMul(WordMul(Wide(d.x), Wide(d.y)), Wide(d.z))

\* C14: num_blocks() equals the mathematical product gx*gy*gz and
\* threads_per_cta() equals bx*by*bz, for all dimensions >= 1.
C14_CountsExact ==
    /\ h_kop = "num_blocks" => Extend(h_count, WideDigits) = ExactCount(m_grid_dim)
    /\ h_kop = "threads_per_cta" =>
           Extend(h_count, WideDigits) = ExactCount(m_block_dim)

\* The threads of the block are those below the end of its last layer.
InBlock == m_next_tid.z < m_block_dim.z

\* C16 as stated: after k calls of increment_thread_id(), while k is below
\* bx*by*bz, get_next_thread_id() equals k.
C16_IdsCountUp ==
    (h_kop = "get_next_thread_id" /\ InBlock) =>
        Extend(h_id, WideDigits) = h_tid_index

\* C16, amended: after k calls of increment_thread_id(), while k is below
\* bx*by*bz, get_next_thread_id() equals k modulo 2^32, and k itself when k is
\* below 2^32.
C16_IdsCountUpModulo ==
    (h_kop = "get_next_thread_id" /\ InBlock) =>
        /\ h_id = Low(h_tid_index, UIntDigits)
        /\ (\A i \in (UIntDigits + 1)..WideDigits : h_tid_index[i] = 0)
              => Extend(h_id, WideDigits) = h_tid_index

\* The id read after a step that took the count of steps to 2^32 or beyond,
\* within the block.
C16_Witness ==
    /\ h_kop = "get_next_thread_id"
    /\ InBlock
    /\ h_tid_calls > 0
    /\ h_pre_tid.x = 0 /\ h_pre_tid.y = 0
    /\ \E i \in (UIntDigits + 1)..WideDigits : h_tid_index[i] # 0

\* The exact value of x + bx*y + bx*by*z.
ExactFlatId(tid, bdim) ==
    WordAdd(WordAdd(Wide(tid.x), WordMul(Wide(bdim.x), Wide(tid.y))),
            WordMul(WordMul(Wide(bdim.x), Wide(bdim.y)), Wide(tid.z)))

\* C9 as stated: get_next_thread_id() equals x + bx*y + bx*by*z for the
\* current next-thread coordinate (x,y,z) and block dimensions (bx,by,bz).
C9_FlatIdExact ==
    h_id # <<>> => Extend(h_id, WideDigits) = ExactFlatId(m_next_tid, m_block_dim)

\* C9 as amended: get_next_thread_id() equals x + bx*y + bx*by*z modulo 2^32,
\* which is that value itself whenever it is below 2^32.
C9_FlatIdModulo ==
    h_id # <<>> =>
        /\ h_id = Low(ExactFlatId(m_next_tid, m_block_dim), UIntDigits)
        /\ (\A i \in (UIntDigits + 1)..WideDigits :
                ExactFlatId(m_next_tid, m_block_dim)[i] = 0)
              => Extend(h_id, WideDigits) = ExactFlatId(m_next_tid, m_block_dim)

\* A read, at a thread of the block, whose exact value does not fit an
\* unsigned int.
C9_Witness ==
    /\ h_id # <<>>
    /\ m_next_tid.z < m_block_dim.z
    /\ \E i \in (UIntDigits + 1)..WideDigits :
          ExactFlatId(m_next_tid, m_block_dim)[i] # 0

\* -------------------------------------------------- claims: warp_inst_t

\* C2: after issue(mask(S), id, cycle) on an empty instruction, freshly
\* constructed or emptied by clear(), active(i) is true iff i is in S, for
\* every lane i in [0,W).
C2_IssueSetsExactlyMask ==
    (h_wop = "issue" /\ h_pre_empty) =>
        \A i \in Lanes : active(i) <=> mask_bit(h_mask, i)

\* C3: in every reachable state, empty() implies that no lane is active.
C3_EmptyHasNoActiveLane == empty => \A i \in Lanes : ~active(i)

\* The calls the last do_atomic() made for lane n.
CallsFor(n) == SelectSeq(h_calls, LAMBDA c : c.lane = n)

\* C4: do_atomic() on a non-empty atomic instruction calls, for every lane
\* whose stored thread is non-null, that lane's function once with that lane's
\* instruction and thread, and makes no call for a lane whose thread is null,
\* whatever the active mask is.
C4_DoAtomicCallsNonNullThreads ==
    (h_wop = "do_atomic" /\ ~h_aborted) =>
        \A n \in Lanes :
            LET cb == m_per_scalar_thread[n + 1].callback
            IN  IF cb.thread # NULL
                THEN CallsFor(n) = <<[lane |-> n, function |-> cb.function,
                                      instruction |-> cb.instruction,
                                      thread |-> cb.thread]>>
                ELSE CallsFor(n) = <<>>

\* A do_atomic() that called an inactive lane's callback and skipped an
\* active lane whose registered callback has a null thread.
C4_Witness ==
    /\ h_wop = "do_atomic" /\ ~h_aborted
    /\ \E n \in Lanes : ~active(n) /\ Len(CallsFor(n)) = 1
    /\ \E n \in Lanes : has_callback(n) /\ CallsFor(n) = <<>>

\* C5: after add_callback() returns, isatomic() is true, whatever came before.
C5_AddCallbackMarksAtomic == h_wop = "add_callback" => isatomic

\* C6: has_callback(n) is true iff lane n is active and a callback function
\* has been registered for lane n; it is false, and no failure, while the
\* per-lane array is not allocated.
C6_HasCallbackIffActiveAndRegistered ==
    \A n \in Lanes :
        /\ has_callback(n) <=> (active(n) /\ n \in h_registered)
        /\ ~m_per_scalar_thread_valid => ~has_callback(n)

\* One lane with a callback, one lane registered but inactive.
C6_Witness ==
    /\ \E n \in Lanes : has_callback(n)
    /\ \E n \in Lanes : n \in h_registered /\ ~active(n) /\ ~has_callback(n)

\* C7: set_addr(n, a) makes get_addr(n) return a, whether or not lane n is
\* active, and a set_addr or add_callback on another lane leaves get_addr(n)
\* as it was.
C7_SetAddrGetAddr ==
    [][ /\ h_wop' = "set_addr" => get_addr(h_lane)' = h_addr'
        /\ \A n \in Lanes :
              ( /\ m_per_scalar_thread_valid
                /\ h_wop' \in {"set_addr", "add_callback"}
                /\ h_lane' # n ) => get_addr(n)' = get_addr(n) ]_vars

\* An address kept on an inactive lane across a set_addr on another lane.
C7_Witness ==
    /\ h_wop = "set_addr"
    /\ \E n \in Lanes : n # h_lane /\ ~active(n) /\ get_addr(n) # 0
    /\ get_addr(h_lane) = h_addr

\* C13: a call that violates its precondition fails its assertion and does
\* not return: warp_id() on an empty instruction, do_atomic() on an
\* instruction that is empty or not atomic, with no callback called, and
\* get_addr(n) while the per-lane array is not allocated, for active and
\* inactive lanes n.
C13_PreconditionViolationsAssert ==
    /\ (h_wop = "warp_id" /\ h_pre_empty) => (h_aborted /\ h_ret = -1)
    /\ (h_wop = "do_atomic" /\ (h_pre_empty \/ ~isatomic))
           => (h_aborted /\ h_calls = <<>>)
    /\ (h_wop = "get_addr" /\ ~m_per_scalar_thread_valid)
           => (h_aborted /\ h_ret = -1)
    /\ (h_wop \in {"warp_id", "get_addr"} /\ ~h_aborted) => h_ret # -1

\* warp_id() failed on an instruction emptied by clear() after an issue.
C13_Witness ==
    /\ h_wop = "warp_id"
    /\ h_aborted
    /\ h_issue_id # -1
    /\ \E n \in Lanes : active(n)

\* C15: where no occupancy had two do_atomic() calls, do_atomic() calls no
\* callback whose registration was made in an earlier occupancy, and a
\* non-empty instruction that had registrations in earlier occupancies is
\* atomic only if add_callback() was called since the last clear().
C15_DeliveredOncePerRegistration ==
    h_atomics < 2 =>
        /\ \A k \in 1..Len(h_calls) : h_calls[k].lane \notin h_earlier_registered
        /\ (~empty /\ isatomic /\ h_earlier_registered # {})
               => (h_occ_registered # {} \/ h_idle_registered)

\* C17: after do_atomic() on a non-empty instruction, for every lane n with
\* has_callback(n), here with a non-null thread registered, the assertion
\* passed and lane n's function was called exactly once.
C17_HasCallbackImpliesDelivered ==
    (h_wop = "do_atomic" /\ ~h_pre_empty) =>
        \A n \in Lanes :
            (has_callback(n) /\ m_per_scalar_thread[n + 1].callback.thread # NULL) =>
                /\ ~h_aborted
                /\ Len(CallsFor(n)) = 1
                /\ CallsFor(n)[1].function = m_per_scalar_thread[n + 1].callback.function

\* C18: empty() is true after construction and after every clear(), false
\* after every issue(); set_addr, add_callback and do_atomic leave it as it
\* was; and while it is false warp_id() is the id given to the most recent
\* issue().
C18_EmptyIssuedCycle ==
    /\ h_wop \in {"construct", "clear"} => empty
    /\ h_wop = "issue" => ~empty
    /\ h_wop \in {"set_addr", "add_callback", "do_atomic"} => (empty <=> h_pre_empty)
    /\ ~empty => warp_id = h_issue_id
    /\ (h_wop = "warp_id" /\ ~h_aborted) => h_ret = h_issue_id

\* A slot that had active lanes issued again, after a clear(), with mask 0
\* and another id.
C18_Witness ==
    /\ h_wop = "issue"
    /\ h_mask = 0
    /\ h_pre_empty
    /\ warp_active_mask # {}
    /\ ~empty
    /\ warp_id = h_issue_id
    /\ warp_id = 1

\* ------------------------------------------------ claims: memory_space_t

\* C12: a == b iff the tags are equal and the banks are equal, also after
\* set_bank; a != b is its negation; a < b iff (tag, bank) of a is
\* lexicographically below that of b, so exactly one of a < b, a == b, b < a
\* holds and among equal tags the smaller bank sorts first.
C12_EqualityAndOrder ==
    h_mop = "compare" =>
        /\ h_cmp.eq <=> (get_type(ms_a) = get_type(ms_b) /\ get_bank(ms_a) = get_bank(ms_b))
        /\ h_cmp.ne <=> ~h_cmp.eq
        /\ h_cmp.lt <=> \/ get_type(ms_a) < get_type(ms_b)
                        \/ /\ get_type(ms_a) = get_type(ms_b)
                           /\ get_bank(ms_a) < get_bank(ms_b)
        /\ h_cmp.gt <=> \/ get_type(ms_b) < get_type(ms_a)
                        \/ /\ get_type(ms_b) = get_type(ms_a)
                           /\ get_bank(ms_b) < get_bank(ms_a)
        /\ Cardinality({ r \in {"lt", "eq", "gt"} : h_cmp[r] }) = 1

\* Two values of one tag, banks set on both, the smaller bank first.
C12_Witness ==
    /\ h_mop = "compare"
    /\ get_type(ms_a) = get_type(ms_b)
    /\ get_type(ms_a) # undefined_space
    /\ 0 < get_bank(ms_a) /\ get_bank(ms_a) < get_bank(ms_b)
    /\ h_cmp.lt /\ ~h_cmp.gt /\ ~h_cmp.eq /\ h_cmp.ne

====
